---- MODULE Spec2Model ----
(***************************************************************************)
(* Model of exc_analysis/plotting.py: draw_exc (the forward kinematics of  *)
(* the excavator arm and the drawing of its linkage on a 3D axes object),  *)
(* orient_plot, get_color_cycle and plot_3d_labeled_clusters.              *)
(*                                                                         *)
(* Numbers.  The code computes in IEEE doubles.  The model computes in     *)
(* exact rational arithmetic extended with NaN: a number is a pair         *)
(* <<n, d>> in lowest terms with d > 0, and NaN is <<0, 0>>.  An angle is  *)
(* kept as the pair <<cos, sin>> of its cosine and sine (so angles are     *)
(* taken modulo 2*pi, which is all np.cos and np.sin read of them); the    *)
(* NaN angle is <<NaN, NaN>>.  Inputs are drawn from configurations whose  *)
(* triangles have rational sines, so that every square root is exact.      *)
(* Rounding error of the doubles is therefore outside the model.           *)
(***************************************************************************)
EXTENDS Integers, Sequences, FiniteSets, TLC

\* ------------------------------------------------------------ numbers
\* The arithmetic is written as functions, whose arguments are evaluated
\* once, with operators of the same meaning in front of them.

NaN == <<0, 0>>

\* the numbers: pairs <<n, d>>
Q == Int \X Int

IsNaN(x) == x[2] = 0

Abs(n) == IF n < 0 THEN -n ELSE n

GCD[a \in Nat, b \in Nat] == IF b = 0 THEN a ELSE GCD[b, a % b]

\* the rational n/d in lowest terms, d # 0
RatF[n \in Int, d \in Int] ==
    LET g == GCD[Abs(n), Abs(d)]
        s == IF d < 0 THEN -1 ELSE 1
    IN  <<(s * n) \div g, (s * d) \div g>>

Rat(n, d) == RatF[n, d]

Num(n) == <<n, 1>>

\* float addition: NaN if either operand is NaN
AddF[x \in Q, y \in Q] ==
    IF IsNaN(x) \/ IsNaN(y) THEN NaN
    ELSE LET g == GCD[x[2], y[2]]
         IN  RatF[x[1] * (y[2] \div g) + y[1] * (x[2] \div g), (x[2] \div g) * y[2]]

Add(x, y) == AddF[x, y]

NegF[x \in Q] == IF IsNaN(x) THEN NaN ELSE <<-x[1], x[2]>>

Neg(x) == NegF[x]

Sub(x, y) == AddF[x, NegF[y]]

\* float multiplication: NaN if either operand is NaN
MulF[x \in Q, y \in Q] ==
    IF IsNaN(x) \/ IsNaN(y) THEN NaN
    ELSE RatF[(x[1] \div GCD[Abs(x[1]), y[2]]) * (y[1] \div GCD[Abs(y[1]), x[2]]),
              (x[2] \div GCD[Abs(y[1]), x[2]]) * (y[2] \div GCD[Abs(x[1]), y[2]])]

Mul(x, y) == MulF[x, y]

\* float division by a nonzero divisor
DivF[x \in Q, y \in Q] ==
    IF IsNaN(x) \/ IsNaN(y) THEN NaN
    ELSE MulF[x, RatF[y[2], y[1]]]

Div(x, y) == DivF[x, y]

Sq(x) == MulF[x, x]

\* x < y on numbers; every comparison with NaN is false
LessF[x \in Q, y \in Q] == ~IsNaN(x) /\ ~IsNaN(y) /\ x[1] * y[2] < y[1] * x[2]

Less(x, y) == LessF[x, y]

\* the exact integer square root of a perfect square
ISqrt[n \in Nat] == CHOOSE k \in 0..n : k * k = n

\* math.sqrt on a non-negative number (a perfect square), NaN for NaN
SqrtF[x \in Q] == IF IsNaN(x) THEN NaN ELSE <<ISqrt[x[1]], ISqrt[x[2]]>>

Sqrt(x) == SqrtF[x]

\* ------------------------------------------------------------- angles

\* the angles: pairs <<cos, sin>>
A == Q \X Q

NaNAng == <<NaN, NaN>>

IsNaNAng(a) == IsNaN(a[1])

\* np.pi, as an angle
PiAng == <<Num(-1), Num(0)>>

\* the sum of two angles (cos and sin of a + b)
AngAddF[a \in A, b \in A] ==
    <<Sub(Mul(a[1], b[1]), Mul(a[2], b[2])), Add(Mul(a[2], b[1]), Mul(a[1], b[2]))>>

AngAdd(a, b) == AngAddF[a, b]

AngNegF[a \in A] == <<a[1], Neg(a[2])>>

AngNeg(a) == AngNegF[a]

AngSub(a, b) == AngAddF[a, AngNegF[b]]

\* 3 * np.pi
ThreePi == AngAdd(AngAdd(PiAng, PiAng), PiAng)

\* np.cos and np.sin
Cos(a) == a[1]

Sin(a) == a[2]

\* the arccos of a number of [-1, 1]
ACosF[x \in Q] == <<x, Sqrt(Sub(Num(1), Sq(x)))>>

\* np.arccos with bounds that exclude the end points (a faulty variant)
ArcCosStrict(x) ==
    IF IsNaN(x) \/ ~Less(Num(-1), x) \/ ~Less(x, Num(1)) THEN NaNAng ELSE ACosF[x]

\* np.arccos: the angle in [0, pi] with cosine x; NaN (with a warning, no
\* exception) for x outside [-1, 1] and for NaN
ArcCos(x) ==
    IF IsNaN(x) \/ Less(x, Num(-1)) \/ Less(Num(1), x) THEN NaNAng ELSE ACosF[x]

\* ------------------------------------------------- geometry constants

\* The table exc of the module kinematics, which draw_exc imports.  The
\* lengths make every triangle of the sampled states a rational one; the
\* fixed angular offsets are 0 or pi/2; the angle with cosine 3/5 is one of
\* the sampled swing angles.
Ang0 == <<Num(1), Num(0)>>

Ang90 == <<Num(0), Num(1)>>

Ang35 == <<Rat(3, 5), Rat(4, 5)>>

ExcTable ==
    [a1 |-> Num(2), a2 |-> Num(10), a3 |-> Num(5), a4 |-> Num(3),
     r_cyl1 |-> Num(2), r_o1b |-> Num(3), r_o1a |-> Num(5),
     a_b12 |-> Ang0, a_a1x1 |-> Ang90,
     r_cyl2 |-> Num(1), r_o2c |-> Num(4), r_o2d |-> Num(5),
     a_12c |-> Ang90, a_d23 |-> Ang0,
     r_cyl3 |-> Num(1), r_ef |-> Num(9), r_fh |-> Num(10), a_dfe |-> Ang0,
     r_o3f |-> Num(12), r_o3g |-> Num(6), r_gh |-> Num(8),
     a_g34 |-> Ang0, a_23d |-> Ang90]

\* ------------------------------------------------------- draw_exc

\* the one element of a singleton set
Only(S) == CHOOSE x \in S : TRUE

\* the law-of-cosines argument (s1^2 + s2^2 - s3^2) / (2 * s1 * s2)
LawOfCosines(s1, s2, s3) ==
    Div(Sub(Add(Sq(s1), Sq(s2)), Sq(s3)), Mul(Mul(Num(2), s1), s2))

\* Boom angle: <<the arccos argument, a_a1b, t2>>
BoomAngle(e, state) ==
    Only({ Only({ <<x_a1b, a_a1b, AngSub(AngSub(a_a1b, e.a_b12), e.a_a1x1)>> :
                  a_a1b \in {ArcCos(x_a1b)} }) :
           x_a1b \in {LawOfCosines(e.r_o1b, e.r_o1a, Add(state[1], e.r_cyl1))} })

\* Stick angle: <<the arccos argument, a_c2d, t3>>
StickAngle(e, state) ==
    Only({ Only({ <<x_c2d, a_c2d,
                    AngSub(AngSub(AngSub(ThreePi, e.a_12c), a_c2d), e.a_d23)>> :
                  a_c2d \in {ArcCos(x_c2d)} }) :
           x_c2d \in {LawOfCosines(e.r_o2c, e.r_o2d, Add(state[2], e.r_cyl2))} })

\* r_o3h for the angle a_hf3
DiagonalO3H(e, a_hf3) ==
    Sqrt(Sub(Add(Sq(e.r_o3f), Sq(e.r_fh)),
             Mul(Mul(Mul(Num(2), e.r_o3f), e.r_fh), Cos(a_hf3))))

\* the arguments of the two arccos taken on the diagonal r_o3h
DiagonalArgs(e, r_o3h) ==
    <<Div(Sub(Add(Sq(r_o3h), Sq(e.r_o3f)), Sq(e.r_fh)), Mul(Mul(Num(2), r_o3h), e.r_o3f)),
      Div(Sub(Add(Sq(r_o3h), Sq(e.r_o3g)), Sq(e.r_gh)), Mul(Mul(Num(2), r_o3h), e.r_o3g))>>

\* Bucket angle: <<the three arccos arguments, a_efh, a_f3h, a_h3g, t4>>
BucketAngle(e, state) ==
    Only({ Only({ Only({ Only({
        <<<<x_efh, x[1], x[2]>>, <<a_efh, a[1], a[2]>>,
          AngSub(AngSub(AngSub(AngSub(ThreePi, a[1]), a[2]), e.a_g34), e.a_23d)>> :
             a \in {<<ArcCos(x[1]), ArcCos(x[2])>>} }) :
             x \in {DiagonalArgs(e, DiagonalO3H(e, AngSub(AngSub(PiAng, e.a_dfe), a_efh)))} }) :
             a_efh \in {ArcCos(x_efh)} }) :
             x_efh \in {LawOfCosines(e.r_ef, e.r_fh, Add(state[3], e.r_cyl3))} })

\* the five arccos arguments and results and the joint angles of draw_exc,
\* for state = <<bm, sk, bk, sw>>
Angles(e, state) ==
    Only({ [args |-> <<bm[1], sk[1], bk[1][1], bk[1][2], bk[1][3]>>,
            acos |-> <<bm[2], sk[2], bk[2][1], bk[2][2], bk[2][3]>>,
            t1 |-> state[4], t2 |-> bm[3], t3 |-> sk[3], t4 |-> bk[3]] :
           bm \in {BoomAngle(e, state)}, sk \in {StickAngle(e, state)},
           bk \in {BucketAngle(e, state)} })

\* the end of link 1, np.array([a1*c1, a1*s1, gos])
O1(e, t, gos) ==
    LET c1 == Cos(t.t1)
        s1 == Sin(t.t1)
    IN  <<Mul(e.a1, c1), Mul(e.a1, s1), gos>>

\* o2 with the y coordinate taken along cos(t1) (a faulty variant)
O2CosY(e, t, gos) ==
    LET c1 == Cos(t.t1)
        c2 == Cos(t.t2)
        s2 == Sin(t.t2)
    IN  <<Mul(Add(Mul(e.a2, c2), e.a1), c1),
          Mul(Add(Mul(e.a2, c2), e.a1), c1),
          Add(Mul(e.a2, s2), gos)>>

\* the end of link 2
O2(e, t, gos) ==
    LET c1 == Cos(t.t1)
        c2 == Cos(t.t2)
        s1 == Sin(t.t1)
        s2 == Sin(t.t2)
    IN  <<Mul(Add(Mul(e.a2, c2), e.a1), c1),
          Mul(Add(Mul(e.a2, c2), e.a1), s1),
          Add(Mul(e.a2, s2), gos)>>

\* o3 with the height of link 3 taken along sin(t2) (a faulty variant)
O3SinT2(e, t, gos) ==
    LET c1 == Cos(t.t1)
        c2 == Cos(t.t2)
        c23 == Cos(AngAdd(t.t2, t.t3))
        s1 == Sin(t.t1)
        s2 == Sin(t.t2)
    IN  <<Mul(Add(Add(Mul(e.a2, c2), Mul(e.a3, c23)), e.a1), c1),
          Mul(Add(Add(Mul(e.a2, c2), Mul(e.a3, c23)), e.a1), s1),
          Add(Add(gos, Mul(e.a2, s2)), Mul(e.a3, s2))>>

\* o3 with the cumulative angle t2 + t3 + t4 (a faulty variant)
O3WithT4(e, t, gos) ==
    LET c1 == Cos(t.t1)
        c2 == Cos(t.t2)
        c234 == Cos(AngAdd(AngAdd(t.t2, t.t3), t.t4))
        s1 == Sin(t.t1)
        s2 == Sin(t.t2)
        s234 == Sin(AngAdd(AngAdd(t.t2, t.t3), t.t4))
    IN  <<Mul(Add(Add(Mul(e.a2, c2), Mul(e.a3, c234)), e.a1), c1),
          Mul(Add(Add(Mul(e.a2, c2), Mul(e.a3, c234)), e.a1), s1),
          Add(Add(gos, Mul(e.a2, s2)), Mul(e.a3, s234))>>

\* the end of link 3
O3(e, t, gos) ==
    LET c1 == Cos(t.t1)
        c2 == Cos(t.t2)
        c23 == Cos(AngAdd(t.t2, t.t3))
        s1 == Sin(t.t1)
        s2 == Sin(t.t2)
        s23 == Sin(AngAdd(t.t2, t.t3))
    IN  <<Mul(Add(Add(Mul(e.a2, c2), Mul(e.a3, c23)), e.a1), c1),
          Mul(Add(Add(Mul(e.a2, c2), Mul(e.a3, c23)), e.a1), s1),
          Add(Add(gos, Mul(e.a2, s2)), Mul(e.a3, s23))>>

\* the end of link 4
O4(e, t, gos) ==
    LET c1 == Cos(t.t1)
        c2 == Cos(t.t2)
        c234 == Cos(AngAdd(AngAdd(t.t2, t.t3), t.t4))
        c23 == Cos(AngAdd(t.t2, t.t3))
        s1 == Sin(t.t1)
        s2 == Sin(t.t2)
        s234 == Sin(AngAdd(AngAdd(t.t2, t.t3), t.t4))
        s23 == Sin(AngAdd(t.t2, t.t3))
    IN  <<Mul(Add(Add(Add(Mul(e.a4, c234), Mul(e.a3, c23)), Mul(e.a2, c2)), e.a1), c1),
          Mul(Add(Add(Add(Mul(e.a4, c234), Mul(e.a3, c23)), Mul(e.a2, c2)), e.a1), s1),
          Add(Add(Add(gos, Mul(e.a2, s2)), Mul(e.a3, s23)), Mul(e.a4, s234))>>

\* gnd, base, o1, o2, o3, o4
Joints(e, t, gos) ==
    LET gnd == <<Num(0), Num(0), Num(0)>>
        base == <<Num(0), Num(0), gos>>
    IN  <<gnd, base, O1(e, t, gos), O2(e, t, gos), O3(e, t, gos), O4(e, t, gos)>>

\* zip(p, q): the coordinate pairs <<xs, ys, zs>> of the segment from p to q
Zip(p, q) == <<<<p[1], q[1]>>, <<p[2], q[2]>>, <<p[3], q[3]>>>>

\* every segment drawn from the ground point (a faulty variant)
SegmentsFromGnd(pts) == [i \in 1..5 |-> Zip(pts[1], pts[i + 1])]

\* [l0, l1, l2, l3, l4]
Segments(pts) == [i \in 1..5 |-> Zip(pts[i], pts[i + 1])]

\* the artist ax.plot(line[0], line[1], line[2], '-o', zdir='z', linewidth=lw,
\* c='y', zorder=0) adds to the axes
Artist(line, lw) ==
    [xs |-> line[1], ys |-> line[2], zs |-> line[3], fmt |-> "-o", zdir |-> "z",
     linewidth |-> lw, c |-> "y", zorder |-> 0]

\* for line in [l0, l1, l2, l3, l4]: ax.plot(...)
Plot(segs, lw) == [i \in 1..Len(segs) |-> Artist(segs[i], lw)]

\* ---------------------------------------------------------- inputs

\* cylinder extensions: with r_cyl1 = 2 the boom triangle (3, 5, r_c1) is
\* degenerate at 0 (argument 1), rational at 2 (argument 3/5) and
\* impossible at 7 (argument below -1)
BoomExt == {0, 2, 7}

\* stick triangle (4, 5, r_c2): rational at 2 (argument 4/5), degenerate at
\* 8 (argument -1), impossible at 9
StickExt == {2, 8, 9}

\* bucket triangle (9, 10, r_c3): 0 (argument 1, and a_h3g out of domain),
\* 16 (every argument inside (-1, 1)), 18 (argument -1), 19 (impossible)
BucketExt == {0, 16, 18, 19}

SwingAngles == {Ang0, Ang35, Ang90}

States ==
    {<<Num(bm), Num(sk), Num(bk), sw>> :
        bm \in BoomExt, sk \in StickExt, bk \in BucketExt, sw \in SwingAngles}

\* the states drawn in pairs
PairStates == {st \in States : st[3] # Num(19)}

\* the states drawn with every combination of the styling options
StyleStates ==
    {st \in States : st[1] = Num(2) /\ st[2] = Num(2) /\ st[3] \in {Num(16), Num(19)}
                     /\ st[4] # Ang0}

\* gnd_offset: the default 17.1, and another value a caller passes
DefaultGos == Rat(171, 10)

GndOffsets == {DefaultGos, Num(20)}

\* lw: the default 2, and another value a caller passes
DefaultLw == 2

LineWidths == {1, DefaultLw}

\* how many draw_exc calls one axes object receives before the caller
\* takes a new one
MaxDraws == 2

\* the locals of one draw_exc call: the arccos arguments and results, the
\* joint angles and the six points
Solve(e, state, gos) ==
    Only({ [args |-> t.args, acos |-> t.acos, t |-> <<t.t2, t.t3, t.t4>>,
            pts |-> Joints(e, t, gos)] : t \in {Angles(e, state)} })

\* Solve on the sampled inputs, evaluated once (a memo table of Solve)
Solved ==
    [in \in States \X GndOffsets |-> Solve(ExcTable, in[1], in[2])] @@ <<>>

Locals(e, state, gos) ==
    IF e = ExcTable /\ <<state, gos>> \in DOMAIN Solved
    THEN Solved[<<state, gos>>]
    ELSE Solve(e, state, gos)

\* ------------------------------------------------------- colour cycle

\* csets of get_color_cycle
Csets == <<<<"navy", "c", "cornflowerblue", "gold", "darkorange", "r">>>>

\* the label arrays passed to plot_3d_labeled_clusters
LabelArrays ==
    {<<0>>, <<1, 0>>, <<2, 2, 1>>, <<3, 1, 3, 0>>, <<5, 0, 1, 6, 3, 2, 3, 4>>}

Titles == {"clusters", "states"}

\* how many colours are taken from one cycle object
MaxTaken == 14

\* itertools.cycle(items): the saved items and the index of the next one;
\* taken counts the calls of next() made on the object
Cycle(items) == [items |-> items, pos |-> 0, taken |-> 0]

\* a cycle that stops at the last item instead of starting over (a faulty
\* variant)
CycleNextNoWrap(it) ==
    <<it.items[it.pos + 1],
      [it EXCEPT !.pos = IF @ + 1 < Len(it.items) THEN @ + 1 ELSE @,
                 !.taken = @ + 1]>>

\* colors.next(): the item and the cycle after it
CycleNext(it) ==
    <<it.items[it.pos + 1],
      [it EXCEPT !.pos = (@ + 1) % Len(it.items), !.taken = @ + 1]>>

\* np.unique(labels): the distinct labels in ascending order
RECURSIVE SortedSeq(_)
SortedSeq(S) ==
    IF S = {} THEN <<>>
    ELSE LET m == CHOOSE x \in S : \A y \in S : x <= y
         IN  <<m>> \o SortedSeq(S \ {m})

Unique(labels) == SortedSeq({labels[i] : i \in 1..Len(labels)})

\* the loop of plot_3d_labeled_clusters over the labels left to draw:
\* <<the scatter calls made, the cycle afterwards>>
RECURSIVE ScatterLoop(_, _, _)
ScatterLoop(todo, it, done) ==
    IF todo = <<>> THEN <<done, it>>
    ELSE LET nx == CycleNext(it)
         IN  ScatterLoop(Tail(todo), nx[2],
                         Append(done, [label |-> Head(todo), c |-> nx[1], n |-> it.taken]))

\* ------------------------------------------------------------ state

VARIABLES
    exc,     \* the geometry table kinematics.exc (a module-level dict)
    ax,      \* the matplotlib 3D axes object the caller passes: the number
             \* of its line artists, its limits and its view
    last,    \* record of the latest draw_exc call: its arguments, the five
             \* arccos arguments and results, the joint angles t2, t3, t4
             \* and the artists it added to ax
    ref,     \* record of an earlier draw_exc call, kept for comparison
    colors,  \* the cycle object the caller holds
    fig      \* the figure of the latest plot_3d_labeled_clusters call

vars == <<exc, ax, last, ref, colors, fig>>

\* a new 3D axes: no artists, matplotlib's default limits and view
FreshAxes ==
    [nlines |-> 0,
     xlim |-> <<0, 1>>, ylim |-> <<0, 1>>, zlim |-> <<0, 1>>,
     azim |-> -60, elev |-> 30]

NoCall == [called |-> FALSE]

NoCycle == Cycle(<<>>)

NoFigure == [labels |-> <<>>, scatters |-> <<>>, title |-> ""]

Init ==
    /\ exc = ExcTable
    /\ ax = FreshAxes
    /\ last = NoCall
    /\ ref = NoCall
    /\ colors = NoCycle
    /\ fig = NoFigure

\* the arguments of a recorded call
Inputs(r) == <<r.state, r.lw, r.lock_axes, r.rotate, r.gos>>

\* draw_exc with the swing angle of the previous call kept in place of
\* state[3] (a faulty variant)
DrawExcStaleSwing(state, lw, lock_axes, rotate, gnd_offset) ==
    LET st == IF last.called
              THEN <<state[1], state[2], state[3], last.state[4]>> ELSE state
        t == Locals(exc, st, gnd_offset)
        ax1 == [ax EXCEPT !.nlines = @ + 5]
        ax2 == IF lock_axes
               THEN [ax1 EXCEPT !.xlim = <<0, 80>>, !.ylim = <<0, 80>>, !.zlim = <<0, 50>>]
               ELSE ax1
        ax3 == IF rotate THEN [ax2 EXCEPT !.azim = -137, !.elev = 35] ELSE ax2
    IN  /\ ax.nlines + 5 <= 5 * MaxDraws
        /\ ax' = ax3
        /\ last' = [called |-> TRUE, state |-> state, lw |-> lw,
                    lock_axes |-> lock_axes, rotate |-> rotate, gos |-> gnd_offset,
                    args |-> t.args, acos |-> t.acos, t |-> t.t,
                    lines |-> Plot(Segments(t.pts), lw), outcome |-> "returned"]
        /\ ref' = IF ref.called /\ Inputs(ref) # <<state, lw, lock_axes, rotate, gnd_offset>>
                  THEN [ref EXCEPT !.mixed = TRUE] ELSE ref
        /\ UNCHANGED <<exc, colors, fig>>

\* draw_exc that draws the arm unswung when rotate is off (a faulty variant)
DrawExcRotateData(state, lw, lock_axes, rotate, gnd_offset) ==
    LET st == IF rotate THEN state ELSE <<state[1], state[2], state[3], Ang0>>
        t == Locals(exc, st, gnd_offset)
        ax1 == [ax EXCEPT !.nlines = @ + 5]
        ax2 == IF lock_axes
               THEN [ax1 EXCEPT !.xlim = <<0, 80>>, !.ylim = <<0, 80>>, !.zlim = <<0, 50>>]
               ELSE ax1
        ax3 == IF rotate THEN [ax2 EXCEPT !.azim = -137, !.elev = 35] ELSE ax2
    IN  /\ ax.nlines + 5 <= 5 * MaxDraws
        /\ ax' = ax3
        /\ last' = [called |-> TRUE, state |-> state, lw |-> lw,
                    lock_axes |-> lock_axes, rotate |-> rotate, gos |-> gnd_offset,
                    args |-> t.args, acos |-> t.acos, t |-> t.t,
                    lines |-> Plot(Segments(t.pts), lw), outcome |-> "returned"]
        /\ ref' = IF ref.called /\ Inputs(ref) # <<state, lw, lock_axes, rotate, gnd_offset>>
                  THEN [ref EXCEPT !.mixed = TRUE] ELSE ref
        /\ UNCHANGED <<exc, colors, fig>>

\* draw_exc that stores the effective cylinder length back into the table
\* (a faulty variant)
DrawExcWritesTable(state, lw, lock_axes, rotate, gnd_offset) ==
    LET t == Locals(exc, state, gnd_offset)
        ax1 == [ax EXCEPT !.nlines = @ + 5]
        ax2 == IF lock_axes
               THEN [ax1 EXCEPT !.xlim = <<0, 80>>, !.ylim = <<0, 80>>, !.zlim = <<0, 50>>]
               ELSE ax1
        ax3 == IF rotate THEN [ax2 EXCEPT !.azim = -137, !.elev = 35] ELSE ax2
    IN  /\ ax.nlines + 5 <= 5 * MaxDraws
        /\ ax' = ax3
        /\ last' = [called |-> TRUE, state |-> state, lw |-> lw,
                    lock_axes |-> lock_axes, rotate |-> rotate, gos |-> gnd_offset,
                    args |-> t.args, acos |-> t.acos, t |-> t.t,
                    lines |-> Plot(Segments(t.pts), lw), outcome |-> "returned"]
        /\ ref' = IF ref.called /\ Inputs(ref) # <<state, lw, lock_axes, rotate, gnd_offset>>
                  THEN [ref EXCEPT !.mixed = TRUE] ELSE ref
        /\ exc' = [exc EXCEPT !.r_cyl1 = Add(state[1], exc.r_cyl1)]
        /\ UNCHANGED <<colors, fig>>

\* draw_exc(ax, state, lw, lock_axes, rotate, gnd_offset): it plots the five
\* segments on ax, sets the limits and the view, and returns None.  The
\* record of the call is kept in last; ref notes whether a call with other
\* arguments came after the call it records.
DrawExc(state, lw, lock_axes, rotate, gnd_offset) ==
    LET t == Locals(exc, state, gnd_offset)
        ax1 == [ax EXCEPT !.nlines = @ + 5]
        ax2 == IF lock_axes
               THEN [ax1 EXCEPT !.xlim = <<0, 80>>, !.ylim = <<0, 80>>, !.zlim = <<0, 50>>]
               ELSE ax1
        ax3 == IF rotate THEN [ax2 EXCEPT !.azim = -137, !.elev = 35] ELSE ax2
    IN  /\ ax.nlines + 5 <= 5 * MaxDraws
        /\ ax' = ax3
        /\ last' = [called |-> TRUE, state |-> state, lw |-> lw,
                    lock_axes |-> lock_axes, rotate |-> rotate, gos |-> gnd_offset,
                    args |-> t.args, acos |-> t.acos, t |-> t.t,
                    lines |-> Plot(Segments(t.pts), lw), outcome |-> "returned"]
        /\ ref' = IF ref.called /\ Inputs(ref) # <<state, lw, lock_axes, rotate, gnd_offset>>
                  THEN [ref EXCEPT !.mixed = TRUE] ELSE ref
        /\ UNCHANGED <<exc, colors, fig>>

\* orient_plot(ax)
OrientPlot ==
    /\ ax' = [ax EXCEPT !.xlim = <<-20, 80>>, !.ylim = <<0, 80>>, !.zlim = <<0, 50>>,
                        !.azim = -142, !.elev = 14]
    /\ UNCHANGED <<exc, last, ref, colors, fig>>

\* fig = plt.figure(); ax = fig.gca(projection='3d')
NewAxes ==
    /\ ax # FreshAxes
    /\ ax' = FreshAxes
    /\ UNCHANGED <<exc, last, ref, colors, fig>>

\* the observer keeps the record of the latest call for later comparison
Remember ==
    /\ last.called
    /\ ref' = [called |-> TRUE, state |-> last.state, lw |-> last.lw,
               lock_axes |-> last.lock_axes, rotate |-> last.rotate, gos |-> last.gos,
               t |-> last.t, lines |-> last.lines, mixed |-> FALSE]
    /\ UNCHANGED <<exc, ax, last, colors, fig>>

\* colors = get_color_cycle(ind)
GetColorCycle(ind) ==
    /\ colors' = Cycle(Csets[ind + 1])
    /\ UNCHANGED <<exc, ax, last, ref, fig>>

\* fig = plot_3d_labeled_clusters(states, labels, title, colors)
PlotLabeledClusters(labels, title) ==
    LET uniq == Unique(labels)
        run == ScatterLoop(uniq, colors, <<>>)
    IN  /\ colors.items # <<>>
        /\ colors.taken + Len(uniq) <= MaxTaken
        /\ fig' = [labels |-> labels, scatters |-> run[1], title |-> title]
        /\ colors' = run[2]
        /\ UNCHANGED <<exc, ax, last, ref>>

\* single calls, default styling, every sampled state and ground offset
Next ==
    \/ \E st \in States, gos \in GndOffsets : DrawExc(st, DefaultLw, TRUE, TRUE, gos)
    \/ OrientPlot
    \/ NewAxes

Spec == Init /\ [][Next]_vars

\* pairs of calls, default styling
NextPairs ==
    \/ \E st \in PairStates : DrawExc(st, DefaultLw, TRUE, TRUE, DefaultGos)
    \/ NewAxes
    \/ Remember

SpecPairs == Init /\ [][NextPairs]_vars

\* pairs of calls with every combination of the styling options
NextStyle ==
    \/ \E st \in StyleStates, lw \in LineWidths, la \in BOOLEAN, ro \in BOOLEAN :
          DrawExc(st, lw, la, ro, DefaultGos)
    \/ OrientPlot
    \/ NewAxes
    \/ Remember

SpecStyle == Init /\ [][NextStyle]_vars

\* the colour cycle and the cluster plot
NextColors ==
    \/ GetColorCycle(0)
    \/ \E labels \in LabelArrays, title \in Titles : PlotLabeledClusters(labels, title)

SpecColors == Init /\ [][NextColors]_vars

\* ------------------------------------------------------------ claims

\* the two ends of a drawn segment, and its coordinates
Start(a) == <<a.xs[1], a.ys[1], a.zs[1]>>

End(a) == <<a.xs[2], a.ys[2], a.zs[2]>>

Coords(a) == <<a.xs, a.ys, a.zs>>

\* the positions in chain order, as read from the drawn segments
Points(lines) == <<Start(lines[1])>> \o [i \in 1..Len(lines) |-> End(lines[i])]

IsNumPt(p) == ~IsNaN(p[1]) /\ ~IsNaN(p[2]) /\ ~IsNaN(p[3])

AllNum(lines) == \A i \in 1..Len(lines) : IsNumPt(Start(lines[i])) /\ IsNumPt(End(lines[i]))

\* a number outside [-1, 1]
OutOfDomain(x) == Less(x, Num(-1)) \/ Less(Num(1), x)

\* every one of the five arccos arguments of the latest call is in [-1, 1]
AllInDomain == \A i \in 1..5 : ~IsNaN(last.args[i]) /\ ~OutOfDomain(last.args[i])

\* the squared length of a drawn segment
SqLen(a) ==
    Add(Add(Sq(Sub(a.xs[2], a.xs[1])), Sq(Sub(a.ys[2], a.ys[1]))),
        Sq(Sub(a.zs[2], a.zs[1])))

BothCalled == ref.called /\ last.called

\* C1: whenever one of the five law-of-cosines arguments of a call lies
\* outside [-1, 1], the call ends in a DomainError and draws no segment.
\* (The claim as stated; draw_exc returns normally and draws NaN segments.)
C1_DomainErrorReported ==
    (last.called /\ \E i \in 1..5 : OutOfDomain(last.args[i]))
        => (last.outcome = "DomainError" /\ last.lines = <<>>)

\* C2 as stated: a call yields exactly 5 positions joined by 4 segments.
C2_FivePositionsFourSegments ==
    last.called => (Len(Points(last.lines)) = 5 /\ Len(last.lines) = 4)

\* C2, amended: a call yields exactly 6 positions in chain order (the origin,
\* the base at (0, 0, gnd_offset), then o1, o2, o3, o4) joined by exactly 5
\* segments, each from one position to the next of that order.
C2_SixPositionsFiveSegments ==
    last.called =>
        /\ Len(last.lines) = 5
        /\ Len(Points(last.lines)) = 6
        /\ Start(last.lines[1]) = <<Num(0), Num(0), Num(0)>>
        /\ End(last.lines[1]) = <<Num(0), Num(0), last.gos>>
        /\ \A i \in 1..4 : End(last.lines[i]) = Start(last.lines[i + 1])

\* a call on a valid state whose six positions are pairwise distinct
C2_Witness ==
    /\ last.called
    /\ AllInDomain
    /\ \A i, j \in 1..6 : i # j => Points(last.lines)[i] # Points(last.lines)[j]

\* C3: two calls with the same three cylinder extensions and swing angles
\* that differ by Delta draw every position at the same height, and the
\* (x, y) of the second is the (x, y) of the first rotated by Delta about
\* the origin (positions that are numbers; exact arithmetic).
C3_SwingRotates ==
    (BothCalled /\ \A k \in 1..3 : ref.state[k] = last.state[k]) =>
        \A k \in 1..6 :
            LET p == Points(ref.lines)[k]
                q == Points(last.lines)[k]
                d == AngSub(last.state[4], ref.state[4])
            IN  /\ IsNumPt(p) <=> IsNumPt(q)
                /\ IsNumPt(p) =>
                    /\ q[3] = p[3]
                    /\ q[1] = Sub(Mul(p[1], Cos(d)), Mul(p[2], Sin(d)))
                    /\ q[2] = Add(Mul(p[1], Sin(d)), Mul(p[2], Cos(d)))

\* two calls on a valid state that differ in the swing angle only, the arm
\* reaching away from the swing axis
C3_Witness ==
    /\ BothCalled
    /\ \A k \in 1..3 : ref.state[k] = last.state[k]
    /\ ref.state[4] = Ang35 /\ last.state[4] = Ang90
    /\ AllInDomain
    /\ Points(ref.lines)[6][1] # Num(0)
    /\ Points(ref.lines)[6] # Points(last.lines)[6]

\* the lengths of the five segments: gnd_offset, a1, a2, a3, a4
LinkLengths == <<last.gos, exc.a1, exc.a2, exc.a3, exc.a4>>

\* C4: the drawn positions form a chain whose segments have the lengths
\* gnd_offset (ground to base), then a1, a2, a3 (and a4), whatever the swing
\* angle; every segment of a valid state is a number (exact arithmetic).
C4_SegmentLengths ==
    last.called =>
        /\ AllInDomain => AllNum(last.lines)
        /\ \A i \in 1..5 :
              (IsNumPt(Start(last.lines[i])) /\ IsNumPt(End(last.lines[i])))
                  => SqLen(last.lines[i]) = Sq(LinkLengths[i])

\* a call on the state whose five arguments lie strictly inside (-1, 1),
\* swung by the angle with cosine 3/5
C4_Witness ==
    /\ last.called
    /\ AllInDomain
    /\ \A i \in 1..5 : last.args[i] # Num(1) /\ last.args[i] # Num(-1)
    /\ last.state[4] = Ang35
    /\ last.gos = DefaultGos

\* some draw_exc call of the styled specification
DrawStep ==
    \E st \in StyleStates, lw \in LineWidths, la \in BOOLEAN, ro \in BOOLEAN :
        DrawExc(st, lw, la, ro, DefaultGos)

\* C5 as stated: a call changes no state that outlives it, the caller's
\* objects included.
C5_NoSideEffects == [][DrawStep => (exc' = exc /\ ax' = ax)]_vars

\* C5, amended: no step changes the geometry table; a draw_exc call acts on
\* the axes object it is given and on nothing else: it adds five line
\* artists, sets the limits exactly when lock_axes and the view exactly when
\* rotate.
C5_OnlyAxesChange ==
    [][/\ exc' = exc
       /\ DrawStep =>
            /\ ax'.nlines = ax.nlines + 5
            /\ <<ax'.xlim, ax'.ylim, ax'.zlim>> =
                  IF last'.lock_axes THEN <<<<0, 80>>, <<0, 80>>, <<0, 50>>>>
                  ELSE <<ax.xlim, ax.ylim, ax.zlim>>
            /\ <<ax'.azim, ax'.elev>> =
                  IF last'.rotate THEN <<-137, 35>> ELSE <<ax.azim, ax.elev>>
            /\ colors' = colors /\ fig' = fig]_vars

\* a second call on axes oriented by orient_plot, with lock_axes and rotate
\* off: ten artists, the limits and view of orient_plot kept
C5_Witness ==
    /\ last.called
    /\ ~last.lock_axes /\ ~last.rotate
    /\ ax.nlines = 10
    /\ ax.xlim = <<-20, 80>> /\ ax.azim = -142

\* C6: an arccos argument of exactly 1 yields the angle 0 and one of exactly
\* -1 the angle pi; a call whose five arguments all lie in [-1, 1], end
\* points included, returns normally and draws segments free of NaN.
C6_BoundaryAccepted ==
    last.called =>
        /\ \A i \in 1..5 :
              /\ last.args[i] = Num(1) => last.acos[i] = Ang0
              /\ last.args[i] = Num(-1) => last.acos[i] = PiAng
        /\ AllInDomain => (last.outcome = "returned" /\ AllNum(last.lines))

\* a call whose arguments are all in [-1, 1], one exactly 1 and one exactly -1
C6_Witness ==
    /\ last.called
    /\ AllInDomain
    /\ \E i \in 1..5 : last.args[i] = Num(1)
    /\ \E i \in 1..5 : last.args[i] = Num(-1)

\* C7: two calls with the same state and ground offset draw segments with
\* the same end points, whatever their lw, lock_axes and rotate.
C7_StylingKeepsGeometry ==
    (BothCalled /\ ref.state = last.state /\ ref.gos = last.gos) =>
        /\ Len(ref.lines) = Len(last.lines)
        /\ \A i \in 1..Len(last.lines) : Coords(ref.lines[i]) = Coords(last.lines[i])

\* two calls on the same valid state that differ in all three options
C7_Witness ==
    /\ BothCalled
    /\ ref.state = last.state
    /\ ref.lw # last.lw /\ ref.lock_axes # last.lock_axes /\ ref.rotate # last.rotate
    /\ AllInDomain
    /\ last.state[4] = Ang35

\* C8: two calls with the same arguments draw the same artists from the
\* same joint angles, whatever calls were made before or between them.
C8_SameInputsSameOutput ==
    (BothCalled /\ Inputs(ref) = Inputs(last)) =>
        (ref.lines = last.lines /\ ref.t = last.t)

\* two calls with the same arguments, a call with other arguments between
\* them
C8_Witness ==
    /\ BothCalled
    /\ Inputs(ref) = Inputs(last)
    /\ ref.mixed
    /\ AllInDomain

\* C9: each cylinder extension determines one joint angle (t2, t3, t4 in
\* turn); the bucket extension moves no position but o4, the stick
\* extension none of gnd, base, o1, o2, and the boom extension none of gnd,
\* base (and o1).
C9_ChainDependency ==
    BothCalled =>
        /\ \A k \in 1..3 : ref.state[k] = last.state[k] => ref.t[k] = last.t[k]
        /\ (ref.state[4] = last.state[4] /\ ref.state[1] = last.state[1]
              /\ ref.state[2] = last.state[2])
            => \A i \in 1..4 : Coords(ref.lines[i]) = Coords(last.lines[i])
        /\ (ref.state[4] = last.state[4] /\ ref.state[1] = last.state[1])
            => \A i \in 1..3 : Coords(ref.lines[i]) = Coords(last.lines[i])
        /\ ref.state[4] = last.state[4]
            => \A i \in 1..2 : Coords(ref.lines[i]) = Coords(last.lines[i])

\* two calls on valid states that differ in the bucket extension only, and
\* so in o4
C9_Witness ==
    /\ BothCalled
    /\ ref.state # last.state
    /\ ref.state[1] = last.state[1] /\ ref.state[2] = last.state[2]
    /\ ref.state[4] = last.state[4]
    /\ AllInDomain /\ AllNum(ref.lines)
    /\ End(ref.lines[5]) # End(last.lines[5])
    /\ ref.t[3] # last.t[3]

\* the palette of get_color_cycle(0)
Palette == Csets[1]

====
